---- MODULE Spec2Model ----
(***************************************************************************)
(* The two Streamlit dashboards of tuto-SV (tuto_sv.py, studentsurvey.py): *)
(* the cached loader, the six chart functions with their aggregations, and *)
(* the top-to-bottom run of each script, re-executed on every interaction. *)
(***************************************************************************)
EXTENDS Integers, Sequences, FiniteSets, TLC

VARIABLES
    script,     \* which of the two scripts this process serves
    pc,         \* position of the current run in the script
    runs,       \* number of runs (re-executions) started so far
    cache,      \* st.cache_data store of load_data: url -> entry
    fetches,    \* number of pd.read_csv network fetches made, per url
    firstRet,   \* what the first completed load_data call returned, per url
    arts_df,    \* the script's global arts_df (return value of load_data)
    df,         \* the script's global df (studentsurvey.py line 48)
    passed,     \* value of df when it was handed to the last plot_* call
    calls,      \* number of load_data calls made in the current run
    page,       \* elements rendered so far in the current run
    out         \* the table handed to the chart library, per chart

vars == <<script, pc, runs, cache, fetches, firstRet, arts_df, df, passed, calls,
          page, out>>

(***************************************************************************)
(* Cells.  A cell is <<tag, text, numerator, denominator>>: a missing      *)
(* value (NaN), a string, or a number kept as a reduced fraction so that   *)
(* means are exact.                                                        *)
(***************************************************************************)
NaN == <<"nan", "", 0, 1>>

Str(s) == <<"str", s, 0, 1>>

Num(n) == <<"num", "", n, 1>>

RECURSIVE Gcd(_, _)
Gcd(a, b) == IF b = 0 THEN a ELSE Gcd(b, a % b)

Rat(n, d) == LET g == Gcd(n, d) IN <<"num", "", n \div g, d \div g>>

IsNa(c) == c[1] = "nan"

IsNum(c) == c[1] = "num"

RatAdd(a, b) == Rat(a[3] * b[4] + b[3] * a[4], a[4] * b[4])

Min(a, b) == IF a <= b THEN a ELSE b

(***************************************************************************)
(* The spelling of every column name, for the string operations the code   *)
(* applies to names (str.replace, str.startswith).                         *)
(***************************************************************************)
Spell ==
    "Gender" :>
        <<"G","e","n","d","e","r">>
    @@ "1st Year Semester 1" :>
        <<"1","s","t"," ","Y","e","a","r"," ","S","e","m","e","s","t","e","r"," ","1">>
    @@ "1st Year Semester 2" :>
        <<"1","s","t"," ","Y","e","a","r"," ","S","e","m","e","s","t","e","r"," ","2">>
    @@ "1st Year Semester 3" :>
        <<"1","s","t"," ","Y","e","a","r"," ","S","e","m","e","s","t","e","r"," ","3">>
    @@ "2nd Year Semester 1" :>
        <<"2","n","d"," ","Y","e","a","r"," ","S","e","m","e","s","t","e","r"," ","1">>
    @@ "2nd Year Semester 2" :>
        <<"2","n","d"," ","Y","e","a","r"," ","S","e","m","e","s","t","e","r"," ","2">>
    @@ "2nd Year Semester 3" :>
        <<"2","n","d"," ","Y","e","a","r"," ","S","e","m","e","s","t","e","r"," ","3">>
    @@ "3rd Year Semester 1" :>
        <<"3","r","d"," ","Y","e","a","r"," ","S","e","m","e","s","t","e","r"," ","1">>
    @@ "3rd Year Semester 2" :>
        <<"3","r","d"," ","Y","e","a","r"," ","S","e","m","e","s","t","e","r"," ","2">>
    @@ "3rd Year Semester 3" :>
        <<"3","r","d"," ","Y","e","a","r"," ","S","e","m","e","s","t","e","r"," ","3">>
    @@ "4th Year Semester 1" :>
        <<"4","t","h"," ","Y","e","a","r"," ","S","e","m","e","s","t","e","r"," ","1">>
    @@ "4th Year Semester 2" :>
        <<"4","t","h"," ","Y","e","a","r"," ","S","e","m","e","s","t","e","r"," ","2">>
    @@ "4th Year Semester 3" :>
        <<"4","t","h"," ","Y","e","a","r"," ","S","e","m","e","s","t","e","r"," ","3">>
    @@ "Q1 [What was your expectation about the University as related to quality of education?]" :>
        <<"Q","1"," ","[","W","h","a","t"," ","w","a","s"," ","y","o","u","r"," ","e","x",
        "p","e","c","t","a","t","i","o","n"," ","a","b","o","u","t"," ","t","h","e"," ","U",
        "n","i","v","e","r","s","i","t","y"," ","a","s"," ","r","e","l","a","t","e","d"," ",
        "t","o"," ","q","u","a","l","i","t","y"," ","o","f"," ","e","d","u","c","a","t","i",
        "o","n","?","]">>
    @@ "Q2 [What was your expectation about the University as related to quality of Faculty?]" :>
        <<"Q","2"," ","[","W","h","a","t"," ","w","a","s"," ","y","o","u","r"," ","e","x",
        "p","e","c","t","a","t","i","o","n"," ","a","b","o","u","t"," ","t","h","e"," ","U",
        "n","i","v","e","r","s","i","t","y"," ","a","s"," ","r","e","l","a","t","e","d"," ",
        "t","o"," ","q","u","a","l","i","t","y"," ","o","f"," ","F","a","c","u","l","t","y",
        "?","]">>
    @@ "Q3 [What was your expectation about the University as related to quality of resources?]" :>
        <<"Q","3"," ","[","W","h","a","t"," ","w","a","s"," ","y","o","u","r"," ","e","x",
        "p","e","c","t","a","t","i","o","n"," ","a","b","o","u","t"," ","t","h","e"," ","U",
        "n","i","v","e","r","s","i","t","y"," ","a","s"," ","r","e","l","a","t","e","d"," ",
        "t","o"," ","q","u","a","l","i","t","y"," ","o","f"," ","r","e","s","o","u","r","c",
        "e","s","?","]">>
    @@ "Q4 [What was your expectation about the University as related to quality of learning environment?]" :>
        <<"Q","4"," ","[","W","h","a","t"," ","w","a","s"," ","y","o","u","r"," ","e","x",
        "p","e","c","t","a","t","i","o","n"," ","a","b","o","u","t"," ","t","h","e"," ","U",
        "n","i","v","e","r","s","i","t","y"," ","a","s"," ","r","e","l","a","t","e","d"," ",
        "t","o"," ","q","u","a","l","i","t","y"," ","o","f"," ","l","e","a","r","n","i","n",
        "g"," ","e","n","v","i","r","o","n","m","e","n","t","?","]">>
    @@ "Q5 [To what extent your expectation was met?]" :>
        <<"Q","5"," ","[","T","o"," ","w","h","a","t"," ","e","x","t","e","n","t"," ","y",
        "o","u","r"," ","e","x","p","e","c","t","a","t","i","o","n"," ","w","a","s"," ","m",
        "e","t","?","]">>
    @@ "Q7. In your opinion,the best aspect of the program is" :>
        <<"Q","7","."," ","I","n"," ","y","o","u","r"," ","o","p","i","n","i","o","n",",",
        "t","h","e"," ","b","e","s","t"," ","a","s","p","e","c","t"," ","o","f"," ","t","h",
        "e"," ","p","r","o","g","r","a","m"," ","i","s">>
    @@ "Do you feel that the quality of education improved at EU over the last year?" :>
        <<"D","o"," ","y","o","u"," ","f","e","e","l"," ","t","h","a","t"," ","t","h","e",
        " ","q","u","a","l","i","t","y"," ","o","f"," ","e","d","u","c","a","t","i","o","n",
        " ","i","m","p","r","o","v","e","d"," ","a","t"," ","E","U"," ","o","v","e","r"," ",
        "t","h","e"," ","l","a","s","t"," ","y","e","a","r","?">>
    @@ "Do you feel that the image of the University improved over the last year?" :>
        <<"D","o"," ","y","o","u"," ","f","e","e","l"," ","t","h","a","t"," ","t","h","e",
        " ","i","m","a","g","e"," ","o","f"," ","t","h","e"," ","U","n","i","v","e","r","s",
        "i","t","y"," ","i","m","p","r","o","v","e","d"," ","o","v","e","r"," ","t","h","e",
        " ","l","a","s","t"," ","y","e","a","r","?">>
    @@ "Area of Evaluation 1" :>
        <<"A","r","e","a"," ","o","f"," ","E","v","a","l","u","a","t","i","o","n"," ","1">>
    @@ "Item 1" :>
        <<"I","t","e","m"," ","1">>
    @@ "Mean Expectation" :>
        <<"M","e","a","n"," ","E","x","p","e","c","t","a","t","i","o","n">>

(***************************************************************************)
(* pandas primitives, as the scripts use them.                             *)
(***************************************************************************)
\* The text of the strings that parse as numbers among the cell texts used.
NumericText == ("2" :> 2) @@ ("5" :> 5)

\* pd.to_numeric(x, errors='coerce') on one cell
to_numeric(c) ==
    IF IsNum(c) \/ IsNa(c) THEN c
    ELSE IF c[2] \in DOMAIN NumericText THEN Num(NumericText[c[2]])
    ELSE NaN

SeriesToNumeric(s) == [i \in 1..Len(s) |-> to_numeric(s[i])]

\* Series.dropna()
NonNa(s) == SelectSeq(s, LAMBDA c : ~IsNa(c))

RECURSIVE SumCells(_)
SumCells(s) == IF s = <<>> THEN Num(0) ELSE RatAdd(Head(s), SumCells(Tail(s)))

\* Series.mean(): missing values are skipped; undefined when none is left
Mean(s) ==
    LET v == NonNa(s)
    IN  IF v = <<>> THEN NaN
        ELSE LET t == SumCells(v) IN Rat(t[3], t[4] * Len(v))

\* A stable sort of <<key, item>> pairs by ascending key
RECURSIVE InsertAsc(_, _)
InsertAsc(s, x) ==
    IF s = <<>> THEN <<x>>
    ELSE IF x[1] < Head(s)[1] THEN <<x>> \o s
    ELSE <<Head(s)>> \o InsertAsc(Tail(s), x)

RECURSIVE SortAsc(_)
SortAsc(s) ==
    IF s = <<>> THEN <<>>
    ELSE InsertAsc(SortAsc(SubSeq(s, 1, Len(s) - 1)), s[Len(s)])

\* The distinct values of a series, in order of first appearance
RECURSIVE Uniques(_)
Uniques(s) ==
    IF s = <<>> THEN <<>>
    ELSE LET u == Uniques(SubSeq(s, 1, Len(s) - 1))
             x == s[Len(s)]
         IN  IF \E i \in DOMAIN u : u[i] = x THEN u ELSE Append(u, x)

CountOf(s, v) == Cardinality({i \in DOMAIN s : s[i] = v})

\* value_counts(dropna=False): missing values counted as a value of their own
value_counts_keepna(s) ==
    LET u == Uniques(s)
        keyed == [i \in DOMAIN u |-> <<0 - CountOf(s, u[i]), u[i]>>]
        sorted == SortAsc(keyed)
    IN  [i \in DOMAIN sorted |-> <<sorted[i][2], 0 - sorted[i][1]>>]

\* value_counts(sort=False): the values in order of first appearance
value_counts_unsorted(s) ==
    LET v == NonNa(s)
        u == Uniques(v)
    IN  [i \in DOMAIN u |-> <<u[i], CountOf(v, u[i])>>]

\* Series.value_counts(): missing values dropped, one <<value, count>> row per
\* distinct value, sorted by descending count
value_counts(s) ==
    LET v == NonNa(s)
        u == Uniques(v)
        keyed == [i \in DOMAIN u |-> <<0 - CountOf(v, u[i]), u[i]>>]
        sorted == SortAsc(keyed)
    IN  [i \in DOMAIN sorted |-> <<sorted[i][2], 0 - sorted[i][1]>>]

\* Series.head(n) / DataFrame.head(n)
head(s, n) == SubSeq(s, 1, Min(n, Len(s)))

\* str.startswith and str.replace (literal, every occurrence)
startswith(s, p) == Len(p) <= Len(s) /\ SubSeq(s, 1, Len(p)) = p

RECURSIVE str_replace(_, _, _)
str_replace(s, pat, repl) ==
    IF s = <<>> THEN <<>>
    ELSE IF startswith(s, pat)
         THEN repl \o str_replace(SubSeq(s, Len(pat) + 1, Len(s)), pat, repl)
         ELSE <<Head(s)>> \o str_replace(Tail(s), pat, repl)

(***************************************************************************)
(* Tables (DataFrames): the column names in file order and a series per    *)
(* column.  None is what load_data returns on failure.                     *)
(***************************************************************************)
None == [none |-> TRUE, cols |-> <<>>, cells |-> [c \in {} |-> <<>>]]

Frame(cols, cells) == [none |-> FALSE, cols |-> cols, cells |-> cells]

HasCol(t, name) == \E i \in DOMAIN t.cols : t.cols[i] = name

\* data[name] = series
SetCol(t, name, series) ==
    Frame(IF HasCol(t, name) THEN t.cols ELSE Append(t.cols, name),
          [c \in DOMAIN t.cells \cup {name} |->
              IF c = name THEN series ELSE t.cells[c]])

NRows(t) == IF t.cols = <<>> THEN 0 ELSE Len(t.cells[t.cols[1]])

\* data[names].mean(axis=1): the row-wise mean, missing values skipped
RowMeans(t, names) ==
    [r \in 1..NRows(t) |-> Mean([k \in DOMAIN names |-> t.cells[names[k]][r]])]

(***************************************************************************)
(* The column names the scripts refer to.                                  *)
(***************************************************************************)
gpa_cols ==
    <<"1st Year Semester 1", "1st Year Semester 2", "1st Year Semester 3",
      "2nd Year Semester 1", "2nd Year Semester 2", "2nd Year Semester 3",
      "3rd Year Semester 1", "3rd Year Semester 2", "3rd Year Semester 3",
      "4th Year Semester 1", "4th Year Semester 2", "4th Year Semester 3">>

semester_order ==
    <<<<"1", "Y", " ", "S", "1">>,
      <<"1", "Y", " ", "S", "2">>,
      <<"1", "Y", " ", "S", "3">>,
      <<"2", "Y", " ", "S", "1">>,
      <<"2", "Y", " ", "S", "2">>,
      <<"2", "Y", " ", "S", "3">>,
      <<"3", "Y", " ", "S", "1">>,
      <<"3", "Y", " ", "S", "2">>,
      <<"3", "Y", " ", "S", "3">>,
      <<"4", "Y", " ", "S", "1">>,
      <<"4", "Y", " ", "S", "2">>,
      <<"4", "Y", " ", "S", "3">>>>

expectation_cols ==
    <<"Q1 [What was your expectation about the University as related to quality of education?]",
      "Q2 [What was your expectation about the University as related to quality of Faculty?]",
      "Q3 [What was your expectation about the University as related to quality of resources?]",
      "Q4 [What was your expectation about the University as related to quality of learning environment?]">>

satisfaction_col == "Q5 [To what extent your expectation was met?]"

aspect_column == "Q7. In your opinion,the best aspect of the program is"

q_edu == "Do you feel that the quality of education improved at EU over the last year?"

q_img == "Do you feel that the image of the University improved over the last year?"

\* head(5) of plot_top_best_aspects
TopN == 5

(***************************************************************************)
(* clean_gpa_data (studentsurvey.py 55-86).  The function assigns into its *)
(* argument, so it yields the argument as it leaves it and the result.     *)
(***************************************************************************)
\* for col in names: data[col] = pd.to_numeric(data[col], errors='coerce')
RECURSIVE CoerceEach(_, _)
CoerceEach(t, names) ==
    IF names = <<>> THEN t
    ELSE CoerceEach(SetCol(t, Head(names), SeriesToNumeric(t.cells[Head(names)])),
                    Tail(names))

\* The two str.replace lines that turn a column name into a semester tag
SemesterTag(name) ==
    LET a == str_replace(Spell[name], <<" ", "Y", "e", "a", "r", " ", "S", "e", "m", "e", "s", "t", "e", "r", " ">>, <<"Y", " ", "S">>)
        b == str_replace(a, <<"1", "s", "t">>, <<"1">>)
        c == str_replace(b, <<"2", "n", "d">>, <<"2">>)
        d == str_replace(c, <<"3", "r", "d">>, <<"3">>)
    IN  str_replace(d, <<"4", "t", "h">>, <<"4">>)

\* pd.Categorical(..., categories=semester_order, ordered=True): the position
\* of the tag among the categories; a tag that is no category becomes missing
\* (tag <<>>), which sort_values puts last
CatCode(tag) ==
    IF \E i \in DOMAIN semester_order : semester_order[i] = tag
    THEN CHOOSE i \in DOMAIN semester_order : semester_order[i] = tag
    ELSE Len(semester_order) + 1

Categorical(tag) == IF CatCode(tag) <= Len(semester_order) THEN tag ELSE <<>>

\* clean_gpa_data without its dropna: every semester keeps its row
DropNaMeansKept(rows) == rows

\* .dropna(subset=['Mean GPA']) on the <<code, <<Semester, Mean GPA>>>> rows
DropNaMeans(rows) == SelectSeq(rows, LAMBDA p : ~IsNa(p[2][2]))

clean_gpa_data(data) ==
    LET d1 == CoerceEach(data, gpa_cols)
        means == [i \in DOMAIN gpa_cols |->
                     <<SemesterTag(gpa_cols[i]), Mean(d1.cells[gpa_cols[i]])>>]
        keyed == [i \in DOMAIN means |->
                     <<CatCode(means[i][1]), <<Categorical(means[i][1]), means[i][2]>>>>]
        kept == DropNaMeans(SortAsc(keyed))
    IN  [data |-> d1, gpa_means |-> [i \in DOMAIN kept |-> kept[i][2]]]

(***************************************************************************)
(* The chart functions.  Each yields the table it hands to the chart       *)
(* library (chart) and its argument as the call leaves it (data).          *)
(***************************************************************************)
\* studentsurvey.py 91-94 and tuto_sv.py 47-48
gender_counts(data) == value_counts(data.cells["Gender"])

plot_gender_distribution(data) == [data |-> data, chart |-> gender_counts(data)]

\* plot_gpa_trend passes data.copy() to clean_gpa_data: its own argument is
\* left as it was
plot_gpa_trend(data) == [data |-> data, chart |-> clean_gpa_data(data).gpa_means]

\* .melt(value_vars=[a, b], var_name='Metric', value_name='Score'): the rows
\* of a, then the rows of b, each <<Metric, Score>>; the row index is not kept
Melt2(t, a, b) ==
    LET n == NRows(t)
    IN  [i \in 1..(2 * n) |->
            IF i <= n THEN <<a, t.cells[a][i]>> ELSE <<b, t.cells[b][i - n]>>]

\* .dropna() on <<Metric, Score>> rows
DropNaScore(rows) == SelectSeq(rows, LAMBDA r : ~IsNa(r[2]))

MetricLabel(m) ==
    IF m = "Mean Expectation" THEN "Average Initial Expectation"
    ELSE IF m = satisfaction_col THEN "Expectation Met Score"
    ELSE m

plot_expectation_comparison(data) ==
    LET d1 == SetCol(data, "Mean Expectation", RowMeans(data, expectation_cols))
        long == DropNaScore(Melt2(d1, "Mean Expectation", satisfaction_col))
    IN  [data |-> d1,
         chart |-> [i \in DOMAIN long |-> <<MetricLabel(long[i][1]), long[i][2]>>]]

best_aspect_counts(data) == head(value_counts(data.cells[aspect_column]), TopN)

plot_top_best_aspects(data) == [data |-> data, chart |-> best_aspect_counts(data)]

\* The lexicographic rank of the texts used in the Gender column (groupby
\* sorts its keys)
TextRank == ("F" :> 1) @@ ("M" :> 2)

\* groupby('Gender'): the keys in sorted order, missing keys dropped
GroupKeys(t) ==
    LET u == Uniques(NonNa(t.cells["Gender"]))
        sorted == SortAsc([i \in DOMAIN u |-> <<TextRank[u[i][2]], u[i]>>])
    IN  [i \in DOMAIN sorted |-> sorted[i][2]]

GroupRows(t, g) == {r \in 1..NRows(t) : t.cells["Gender"][r] = g}

\* x.shape[1], the number of question columns, as the divisor
ProportionYesOverColumns(t, rows, q) ==
    Rat(Cardinality({r \in rows : t.cells[q][r] = Str("Yes")}), 2)

\* lambda x: (x == 'Yes').sum() / x.shape[0], for one column of one group
ProportionYes(t, rows, q) ==
    Rat(Cardinality({r \in rows : t.cells[q][r] = Str("Yes")}), Cardinality(rows))

QuestionLabel(q) ==
    IF q = q_edu THEN "Quality of Education Improved"
    ELSE IF q = q_img THEN "University Image Improved"
    ELSE q

\* improvement_df melted: a <<Gender, Question, Proportion_Yes>> row per group
\* for q_edu, then one per group for q_img
plot_improvement_perception_by_gender(data) ==
    LET keys == GroupKeys(data)
        k == Len(keys)
        row(g, q) == <<g, QuestionLabel(q), ProportionYes(data, GroupRows(data, g), q)>>
    IN  [data |-> data,
         chart |-> [i \in 1..(2 * k) |->
                       IF i <= k THEN row(keys[i], q_edu) ELSE row(keys[i - k], q_img)]]

\* [col for col in data.columns if col.startswith(prefix)]
ColsStartingWith(t, prefix) == SelectSeq(t.cols, LAMBDA c : startswith(Spell[c], prefix))

plot_policy_vs_implementation_ratings(data) ==
    LET area_evaluation_cols == ColsStartingWith(data, <<"A", "r", "e", "a", " ", "o", "f", " ", "E", "v", "a", "l", "u", "a", "t", "i", "o", "n">>)
        item_cols == ColsStartingWith(data, <<"I", "t", "e", "m">>)
        d1 == CoerceEach(data, area_evaluation_cols)
        d2 == CoerceEach(d1, item_cols)
        avg_area == Mean(RowMeans(d2, area_evaluation_cols))
        avg_item == Mean(RowMeans(d2, item_cols))
    IN  [data |-> d2,
         chart |-> << <<"Academic/Administrative Policy", avg_area>>,
                      <<"Specific Teaching/Support Items", avg_item>> >>]

(***************************************************************************)
(* The input tables: CSV documents with the column schema the scripts      *)
(* assume.  A family varies the columns one chart reads and keeps the      *)
(* other columns at a default value.                                       *)
(***************************************************************************)
MaxRows == 2

MaxGenderRows == 3

MaxAspectRows == 7

MaxRuns == 2

Range(s) == {s[i] : i \in DOMAIN s}

Reverse(s) == [i \in 1..Len(s) |-> s[Len(s) + 1 - i]]

FileCols ==
    <<"Gender">> \o gpa_cols \o expectation_cols
    \o <<satisfaction_col, aspect_column, q_edu, q_img, "Area of Evaluation 1", "Item 1">>

ColOrders == {FileCols, Reverse(FileCols)}

DefaultCell(c) ==
    IF c = "Gender" THEN Str("F")
    ELSE IF c = aspect_column THEN Str("Faculty")
    ELSE IF c \in {q_edu, q_img} THEN Str("Yes")
    ELSE Num(4)

\* The table of n rows with columns in the order cols: the series over[c] for
\* the columns c that over names, the default cell everywhere else
Table(cols, n, over) ==
    Frame(cols, [c \in Range(FileCols) |->
                    IF c \in DOMAIN over THEN over[c]
                    ELSE [i \in 1..n |-> DefaultCell(c)]])

\* Gender column: any series of F, M and missing values
GenderSeries == UNION {[1..n -> {Str("F"), Str("M"), NaN}] : n \in 1..MaxGenderRows}

GenderTable(g) == Table(FileCols, Len(g), "Gender" :> g)

\* Best-aspect column: free text, named in order of first appearance, after
\* at most one missing value
AspectText ==
    <<"Faculty", "Teaching", "Resources", "Campus", "Curriculum", "Library",
      "Clubs", "Labs", "Fees", "Location">>

RECURSIVE TextSeries(_)
TextSeries(n) ==
    IF n = 0 THEN {<<>>}
    ELSE UNION {{Append(s, Str(AspectText[k])) :
                    k \in 1..Min(Len(Uniques(s)) + 1, Len(AspectText))} :
                s \in TextSeries(n - 1)}

AspectSeries ==
    UNION {TextSeries(n) \cup {<<NaN>> \o s : s \in TextSeries(n - 1)} :
           n \in 1..MaxAspectRows}

AspectTable(a) == Table(FileCols, Len(a), aspect_column :> a)

\* GPA columns: each row is one of a few kinds of transcript
GpaRowKinds == {"full", "blank", "text", "quoted", "first year", "odd", "not last"}

GpaCell(kind, j) ==
    CASE kind = "full" -> Num(3)
      [] kind = "blank" -> NaN
      [] kind = "text" -> Str("n/a")
      [] kind = "quoted" -> Str("2")
      [] kind = "first year" -> IF j <= 3 THEN Num(2) ELSE NaN
      [] kind = "odd" -> IF j % 2 = 1 THEN Num(4) ELSE Str("absent")
      [] kind = "not last" -> IF j < Len(gpa_cols) THEN Num(3) ELSE NaN

GpaIndex(c) == CHOOSE j \in DOMAIN gpa_cols : gpa_cols[j] = c

GpaKinds == UNION {[1..n -> GpaRowKinds] : n \in 1..MaxRows}

GpaTable(cols, kinds) ==
    Table(cols, Len(kinds),
          [c \in Range(gpa_cols) |->
              [r \in 1..Len(kinds) |-> GpaCell(kinds[r], GpaIndex(c))]])

\* Gender and the two yes/no questions, a <<Gender, q_edu, q_img>> per row
ImproveRow ==
    {<<g, a, b>> : g \in {Str("F"), Str("M"), NaN},
                   a \in {Str("Yes"), NaN},
                   b \in {Str("Yes"), Str("No")}}

ImproveRows == UNION {[1..n -> ImproveRow] : n \in 1..MaxRows}

ImproveTable(rows) ==
    Table(FileCols, Len(rows),
          ("Gender" :> [r \in 1..Len(rows) |-> rows[r][1]])
          @@ (q_edu :> [r \in 1..Len(rows) |-> rows[r][2]])
          @@ (q_img :> [r \in 1..Len(rows) |-> rows[r][3]]))

\* The four expectation answers and the satisfaction answer
ExpectRowKinds == {"all", "none", "no Q1", "only Q4"}

ExpectCell(kind, k) ==
    CASE kind = "all" -> Num(4)
      [] kind = "none" -> NaN
      [] kind = "no Q1" -> IF k = 1 THEN NaN ELSE Num(2)
      [] kind = "only Q4" -> IF k = 4 THEN Num(5) ELSE NaN

ExpectIndex(c) == CHOOSE k \in DOMAIN expectation_cols : expectation_cols[k] = c

ExpectRows == UNION {[1..n -> ExpectRowKinds \X {NaN, Num(3)}] : n \in 1..MaxRows}

ExpectTable(rows) ==
    Table(FileCols, Len(rows),
          [c \in Range(expectation_cols) |->
              [r \in 1..Len(rows) |-> ExpectCell(rows[r][1], ExpectIndex(c))]]
          @@ (satisfaction_col :> [r \in 1..Len(rows) |-> rows[r][2]]))

\* The rating columns, numeric or read as text, an <<Area, Item>> per row
PolicyRows ==
    UNION {[1..n -> {Num(4), Str("5"), Str("n/a"), NaN} \X {Num(3), Str("2")}] :
           n \in 1..MaxRows}

PolicyTable(rows) ==
    Table(FileCols, Len(rows),
          ("Area of Evaluation 1" :> [r \in 1..Len(rows) |-> rows[r][1]])
          @@ ("Item 1" :> [r \in 1..Len(rows) |-> rows[r][2]]))

\* Any of the input tables
IsAggTable(t) ==
    \/ \E g \in GenderSeries : t = GenderTable(g)
    \/ \E a \in AspectSeries : t = AspectTable(a)
    \/ \E kinds \in GpaKinds, cols \in ColOrders : t = GpaTable(cols, kinds)
    \/ \E rows \in ImproveRows : t = ImproveTable(rows)
    \/ \E rows \in ExpectRows : t = ExpectTable(rows)
    \/ \E rows \in PolicyRows : t = PolicyTable(rows)

\* The documents the endpoint serves in the runs of the whole script
RunTables ==
    {Table(FileCols, 3, "Gender" :> <<Str("F"), Str("F"), Str("M")>>),
     Table(Reverse(FileCols), 2,
           [c \in Range(gpa_cols) |-> <<Str("n/a"), Str("absent")>>]),
     Table(FileCols, 2, satisfaction_col :> <<NaN, Num(3)>>),
     Table(FileCols, 2, "Area of Evaluation 1" :> <<Str("5"), Str("n/a")>>),
     Table(FileCols, 2, ("Gender" :> <<Str("M"), NaN>>) @@ (q_edu :> <<Str("No"), Str("Yes")>>)),
     Table(FileCols, 7,
           aspect_column :> [i \in 1..7 |-> Str(AspectText[IF i = 7 THEN 6 ELSE i])])}

(***************************************************************************)
(* The page: the elements the run has rendered, each <<command, label>>.   *)
(***************************************************************************)
El(kind, label) == <<kind, label>>

ErrorEl == El("error", "An error occurred while loading data")

Chart(name) == El("plotly_chart", name)

Caption(name) == El("info", name)

Rendered(e) == \E i \in DOMAIN page : page[i] = e

OutEmpty ==
    [gender |-> <<>>, gpa |-> <<>>, expect |-> <<>>, aspects |-> <<>>,
     improve |-> <<>>, policy |-> <<>>]

(***************************************************************************)
(* The loader (studentsurvey.py 32-42, tuto_sv.py 24-34).                  *)
(***************************************************************************)
URL == "https://raw.githubusercontent.com/Wanioooo/tuto-SV/refs/heads/main/arts_faculty_data.csv"

Urls == {URL}

Scripts == {"studentsurvey.py", "tuto_sv.py"}

\* What pd.read_csv(url) can do: raise, or return the document served
FetchResults ==
    {[ok |-> FALSE, table |-> None]} \cup {[ok |-> TRUE, table |-> t] : t \in RunTables}

\* load_data with an except branch that renders nothing
load_data_silent(res) ==
    IF res.ok THEN [value |-> res.table, msgs |-> <<>>]
    ELSE [value |-> None, msgs |-> <<>>]

\* The body of load_data: its return value and the elements it renders
load_data(res) ==
    IF res.ok THEN [value |-> res.table, msgs |-> <<>>]
    ELSE [value |-> None, msgs |-> <<ErrorEl>>]

NoEntry == [has |-> FALSE, value |-> None, msgs |-> <<>>]

\* load_data without the decorator: nothing is stored
cache_data_off(c, url, r) == c

\* A cache that keeps tables only, so that a failed load is tried again
cache_data_tables_only(c, url, r) ==
    IF r.value.none THEN c
    ELSE [c EXCEPT ![url] = [has |-> TRUE, value |-> r.value, msgs |-> r.msgs]]

\* @st.cache_data: whatever the function returns is stored under its argument,
\* with the elements it rendered, and never evicted
cache_data(c, url, r) ==
    [c EXCEPT ![url] = [has |-> TRUE, value |-> r.value, msgs |-> r.msgs]]

Returned(url, v) ==
    IF firstRet[url].set THEN firstRet
    ELSE [firstRet EXCEPT ![url] = [set |-> TRUE, value |-> v]]

\* arts_df = load_data(URL), the function body runs
LoadMiss ==
    /\ pc = "load"
    /\ ~cache[URL].has
    /\ \E res \in FetchResults :
          LET r == load_data(res)
          IN  /\ cache' = cache_data(cache, URL, r)
              /\ arts_df' = r.value
              /\ page' = page \o r.msgs
              /\ firstRet' = Returned(URL, r.value)
    /\ fetches' = [fetches EXCEPT ![URL] = @ + 1]
    /\ calls' = calls + 1
    /\ pc' = "loaded"
    /\ UNCHANGED <<script, runs, df, passed, out>>

\* arts_df = load_data(URL), answered from the cache: the stored value is
\* returned and the stored elements are rendered again
LoadHit ==
    /\ pc = "load"
    /\ cache[URL].has
    /\ arts_df' = cache[URL].value
    /\ page' = page \o cache[URL].msgs
    /\ firstRet' = Returned(URL, cache[URL].value)
    /\ calls' = calls + 1
    /\ pc' = "loaded"
    /\ UNCHANGED <<script, runs, cache, fetches, df, passed, out>>

(***************************************************************************)
(* studentsurvey.py, top to bottom.                                        *)
(***************************************************************************)
\* The first two chart calls exchanged
ChartOrderSwapped == <<"gpa", "gender", "expect", "aspects", "improve", "policy">>

\* The order of the six chart calls (lines 261-289)
ChartOrder == <<"gender", "gpa", "expect", "aspects", "improve", "policy">>

After(name) ==
    LET i == CHOOSE k \in DOMAIN ChartOrder : ChartOrder[k] = name
    IN  IF i = Len(ChartOrder) THEN "done" ELSE ChartOrder[i + 1]

\* lines 12-28
SurveyStart ==
    /\ script = "studentsurvey.py"
    /\ pc = "start"
    /\ page' = page \o <<El("header", "Scientific Visualization"),
                         El("title", "Arts Faculty Student Survey Analysis"),
                         El("metric", "PLO 2"), El("metric", "PLO 3"),
                         El("metric", "PLO 4"), El("metric", "PLO 5"),
                         El("markdown", "Exploring")>>
    /\ pc' = "load"
    /\ UNCHANGED <<script, runs, cache, fetches, firstRet, arts_df, df, passed, calls, out>>

\* lines 44-51: st.stop() on None, else df = arts_df.copy() and the preview
SurveyLoaded ==
    /\ script = "studentsurvey.py"
    /\ pc = "loaded"
    /\ IF arts_df.none
       THEN /\ pc' = "done"
            /\ UNCHANGED <<df, page>>
       ELSE /\ df' = arts_df
            /\ page' = page \o <<El("header", "Data Preview"), El("dataframe", "df")>>
            /\ pc' = ChartOrder[1]
    /\ UNCHANGED <<script, runs, cache, fetches, firstRet, arts_df, passed, calls, out>>

\* A call plot_x(df): df is passed by reference, so what the function assigns
\* into its argument is assigned into df
PlotCall(name, r, heading) ==
    /\ script = "studentsurvey.py"
    /\ pc = name
    /\ passed' = df
    /\ df' = r.data
    /\ out' = [out EXCEPT ![name] = r.chart]
    /\ page' = page \o heading \o <<Chart(name), Caption(name)>>
    /\ pc' = After(name)
    /\ UNCHANGED <<script, runs, cache, fetches, firstRet, arts_df, calls>>

PlotGender ==
    PlotCall("gender", plot_gender_distribution(df),
             <<El("header", "Demographic and Academic Performance"),
               El("subheader", "Gender Distribution")>>)

PlotGpa ==
    PlotCall("gpa", plot_gpa_trend(df), <<El("subheader", "Mean GPA Trend")>>)

PlotExpectation ==
    PlotCall("expect", plot_expectation_comparison(df),
             <<El("header", "Expectation and Satisfaction Analysis"),
               El("subheader", "Initial Expectation vs. Satisfaction")>>)

PlotAspects ==
    PlotCall("aspects", plot_top_best_aspects(df),
             <<El("subheader", "Top Best Aspects of the Program")>>)

PlotImprovement ==
    PlotCall("improve", plot_improvement_perception_by_gender(df),
             <<El("header", "Improvement Perception and Overall Rating"),
               El("subheader", "Perception of University Improvement by Gender")>>)

PlotPolicy ==
    PlotCall("policy", plot_policy_vs_implementation_ratings(df),
             <<El("subheader", "Average Rating: Policy vs. Implementation")>>)

(***************************************************************************)
(* tuto_sv.py, top to bottom.                                              *)
(***************************************************************************)
\* lines 7-20
TutoStart ==
    /\ script = "tuto_sv.py"
    /\ pc = "start"
    /\ page' = page \o <<El("header", "Scientific Visualization"),
                         El("title", "Arts Faculty Data: Gender Distribution"),
                         El("markdown", "Loading data")>>
    /\ pc' = "load"
    /\ UNCHANGED <<script, runs, cache, fetches, firstRet, arts_df, df, passed, calls, out>>

\* lines 38-66: the preview and the pie chart, under "if arts_df is not None"
TutoLoaded ==
    /\ script = "tuto_sv.py"
    /\ pc = "loaded"
    /\ IF arts_df.none
       THEN UNCHANGED <<page, out>>
       ELSE /\ page' = page \o <<El("subheader", "Raw Data Preview"),
                                 El("dataframe", "arts_df.head()"),
                                 El("subheader", "Distribution of Gender in Arts Faculty"),
                                 Chart("gender")>>
            /\ out' = [out EXCEPT !.gender = gender_counts(arts_df)]
    /\ pc' = "sidebar"
    /\ UNCHANGED <<script, runs, cache, fetches, firstRet, arts_df, df, passed, calls>>

\* lines 70-74
TutoSidebar ==
    /\ script = "tuto_sv.py"
    /\ pc = "sidebar"
    /\ page' = Append(page, El("sidebar.info", "To run this application"))
    /\ pc' = "done"
    /\ UNCHANGED <<script, runs, cache, fetches, firstRet, arts_df, df, passed, calls, out>>

(***************************************************************************)
(* The page framework runs the whole script again on every interaction;    *)
(* the script's globals start afresh, the cache lives on.                  *)
(***************************************************************************)
Rerun ==
    /\ pc = "done"
    /\ runs < MaxRuns
    /\ runs' = runs + 1
    /\ pc' = "start"
    /\ page' = <<>>
    /\ arts_df' = None
    /\ df' = None
    /\ passed' = None
    /\ calls' = 0
    /\ out' = OutEmpty
    /\ UNCHANGED <<script, cache, fetches, firstRet>>

Init ==
    /\ script \in Scripts
    /\ pc = "start"
    /\ runs = 1
    /\ cache = [u \in Urls |-> NoEntry]
    /\ fetches = [u \in Urls |-> 0]
    /\ firstRet = [u \in Urls |-> [set |-> FALSE, value |-> None]]
    /\ arts_df = None
    /\ df = None
    /\ passed = None
    /\ calls = 0
    /\ page = <<>>
    /\ out = OutEmpty

Charts ==
    \/ SurveyLoaded
    \/ PlotGender
    \/ PlotGpa
    \/ PlotExpectation
    \/ PlotAspects
    \/ PlotImprovement
    \/ PlotPolicy
    \/ TutoLoaded
    \/ TutoSidebar

Next ==
    \/ SurveyStart
    \/ TutoStart
    \/ LoadMiss
    \/ LoadHit
    \/ Charts
    \/ Rerun

Spec == Init /\ [][Next]_vars

(***************************************************************************)
(* The aggregations on their own: the state right after a first successful *)
(* load of any input table, and from there the rest of that run.           *)
(***************************************************************************)
StartPage(s) ==
    IF s = "studentsurvey.py"
    THEN <<El("header", "Scientific Visualization"),
           El("title", "Arts Faculty Student Survey Analysis"),
           El("metric", "PLO 2"), El("metric", "PLO 3"),
           El("metric", "PLO 4"), El("metric", "PLO 5"),
           El("markdown", "Exploring")>>
    ELSE <<El("header", "Scientific Visualization"),
           El("title", "Arts Faculty Data: Gender Distribution"),
           El("markdown", "Loading data")>>

InitAgg ==
    /\ script \in Scripts
    /\ pc = "loaded"
    /\ runs = 1
    /\ IF script = "tuto_sv.py"
       THEN \E g \in GenderSeries : arts_df = GenderTable(g)
       ELSE IsAggTable(arts_df)
    /\ cache = [u \in Urls |-> [has |-> TRUE, value |-> arts_df, msgs |-> <<>>]]
    /\ fetches = [u \in Urls |-> 1]
    /\ firstRet = [u \in Urls |-> [set |-> TRUE, value |-> arts_df]]
    /\ df = None
    /\ passed = None
    /\ calls = 1
    /\ page = StartPage(script)
    /\ out = OutEmpty

SpecAgg == InitAgg /\ [][Charts]_vars

(***************************************************************************)
(* Properties.                                                             *)
(***************************************************************************)
InSurvey == script = "studentsurvey.py"

\* load_data has returned in the current run
LoadReturned == pc \notin {"start", "load"}

\* The current run's load failed
LoadFailed == LoadReturned /\ arts_df.none

DataKinds == {"dataframe", "plotly_chart", "info", "subheader"}

NoDataRendered == \A i \in DOMAIN page : page[i][1] \notin DataKinds

Last(s) == s[Len(s)]

IsPrefix(a, b) == Len(a) <= Len(b) /\ SubSeq(b, 1, Len(a)) = a

RECURSIVE SumCounts(_)
SumCounts(rows) == IF rows = <<>> THEN 0 ELSE Head(rows)[2] + SumCounts(Tail(rows))

\* The input column c of the loaded table
Input(c) == arts_df.cells[c]

NonMissing(c) == Cardinality({i \in DOMAIN Input(c) : ~IsNa(Input(c)[i])})

Distinct(c) == {Input(c)[i] : i \in DOMAIN Input(c)} \ {NaN}

Occurrences(c, v) == Cardinality({i \in DOMAIN Input(c) : Input(c)[i] = v})

FirstAt(c, v) ==
    CHOOSE i \in DOMAIN Input(c) :
        Input(c)[i] = v /\ \A j \in 1..(i - 1) : Input(c)[j] # v

\* v comes before w in the order "more frequent first, then first seen first"
RanksBefore(c, v, w) ==
    \/ Occurrences(c, v) > Occurrences(c, w)
    \/ Occurrences(c, v) = Occurrences(c, w) /\ FirstAt(c, v) < FirstAt(c, w)

\* rows are the first limit <<value, count>> pairs of column c in that order
IsCountTable(rows, c, limit) ==
    /\ Len(rows) = Min(limit, Cardinality(Distinct(c)))
    /\ \A i \in DOMAIN rows :
          /\ rows[i][1] \in Distinct(c)
          /\ rows[i][2] = Occurrences(c, rows[i][1])
    /\ \A i, j \in DOMAIN rows : i < j => RanksBefore(c, rows[i][1], rows[j][1])
    /\ \A v \in Distinct(c) \ {rows[i][1] : i \in DOMAIN rows} :
          \A i \in DOMAIN rows : RanksBefore(c, rows[i][1], v)

\* C1: over the runs of one process load_data fetches a url at most once, and
\* every call returns the table the first call returned.
C1_OneFetchPerUrl ==
    \A u \in Urls :
        /\ fetches[u] <= 1
        /\ LoadReturned => firstRet[u].set /\ arts_df = firstRet[u].value

\* A second run whose load returned the table of the first run without a fetch
C1_Witness ==
    /\ runs = 2
    /\ LoadReturned
    /\ ~arts_df.none
    /\ fetches[URL] = 1

\* C2 as stated: when the load fails an error is shown and the whole pipeline
\* halts in both scripts, so the finished page ends with the error message and
\* holds no preview, chart or caption.
C2_HaltsInBothScripts ==
    (LoadFailed /\ pc = "done") =>
        /\ Rendered(ErrorEl)
        /\ Last(page) = ErrorEl
        /\ NoDataRendered

\* C2 as the code has it: when the load fails, load_data returns None, the
\* error message is shown and no preview, chart or caption is rendered;
\* studentsurvey.py halts there, tuto_sv.py goes on and renders its sidebar
\* note, and nothing else, after the error.
C2_FailFast ==
    LoadFailed =>
        /\ Rendered(ErrorEl)
        /\ NoDataRendered
        /\ df.none
        /\ InSurvey => Last(page) = ErrorEl
        /\ (~InSurvey /\ pc = "done") =>
              /\ Last(page) = El("sidebar.info", "To run this application")
              /\ page[Len(page) - 1] = ErrorEl

\* A finished run of tuto_sv.py whose load failed
C2_Witness ==
    /\ ~InSurvey
    /\ LoadFailed
    /\ pc = "done"
    /\ Rendered(ErrorEl)

\* C3: the rows of clean_gpa_data are in the canonical semester order, whatever
\* the column order of the file, and there is a row for a semester exactly
\* when its column holds a numeric value; so none when no column holds one.
C3_GpaOrderedAndDefined ==
    (InSurvey /\ Rendered(Chart("gpa"))) =>
        LET rows == out.gpa
            Pos(tag) == CHOOSE k \in DOMAIN semester_order : semester_order[k] = tag
            HasNumber(k) ==
                \E r \in DOMAIN Input(gpa_cols[k]) :
                    \/ IsNum(Input(gpa_cols[k])[r])
                    \/ Input(gpa_cols[k])[r][2] \in DOMAIN NumericText
        IN  /\ \A i \in DOMAIN rows : rows[i][1] \in Range(semester_order)
            /\ \A i, j \in DOMAIN rows : i < j => Pos(rows[i][1]) < Pos(rows[j][1])
            /\ {Pos(rows[i][1]) : i \in DOMAIN rows}
                   = {k \in DOMAIN gpa_cols : HasNumber(k)}
            /\ \A i \in DOMAIN rows : IsNum(rows[i][2])
            /\ (\A k \in DOMAIN gpa_cols : ~HasNumber(k)) => rows = <<>>

\* A file with its columns in reverse order in which some semesters, not all,
\* have no numeric value
C3_Witness ==
    /\ InSurvey
    /\ Rendered(Chart("gpa"))
    /\ arts_df.cols = Reverse(FileCols)
    /\ Len(out.gpa) > 0
    /\ Len(out.gpa) < Len(gpa_cols)

\* C4 as stated: for the Gender count and for the top-5 best-aspect count the
\* emitted counts sum to the number of non-missing values of the column.
C4_SumIsNonMissing ==
    /\ Rendered(Chart("gender")) => SumCounts(out.gender) = NonMissing("Gender")
    /\ Rendered(Chart("aspects")) => SumCounts(out.aspects) = NonMissing(aspect_column)

\* C4 as the code has it: the Gender counts of both scripts sum to the number
\* of non-missing values; the top-5 best-aspect counts sum to the number of
\* non-missing values that carry one of the emitted aspects, which is the
\* number of all non-missing values exactly when the column has at most 5
\* distinct values, and less otherwise.
C4_SumOfCounts ==
    /\ Rendered(Chart("gender")) => SumCounts(out.gender) = NonMissing("Gender")
    /\ Rendered(Chart("aspects")) =>
          LET emitted == {out.aspects[i][1] : i \in DOMAIN out.aspects}
              covered == {i \in DOMAIN Input(aspect_column) :
                             Input(aspect_column)[i] \in emitted}
          IN  /\ SumCounts(out.aspects) = Cardinality(covered)
              /\ NaN \notin emitted
              /\ Cardinality(Distinct(aspect_column)) <= TopN
                    => SumCounts(out.aspects) = NonMissing(aspect_column)
              /\ Cardinality(Distinct(aspect_column)) > TopN
                    => SumCounts(out.aspects) < NonMissing(aspect_column)

\* A best-aspect column with more than 5 distinct texts and a missing value
C4_Witness ==
    /\ Rendered(Chart("aspects"))
    /\ Cardinality(Distinct(aspect_column)) > TopN
    /\ NonMissing(aspect_column) < Len(Input(aspect_column))

C6_ProportionInUnitInterval ==
    (InSurvey /\ Rendered(Chart("improve"))) =>
        LET rows == out.improve
            groups == Distinct("Gender")
            Size(g) == Occurrences("Gender", g)
            Yes(g, q) ==
                Cardinality({r \in DOMAIN Input(q) :
                                Input("Gender")[r] = g /\ Input(q)[r] = Str("Yes")})
            Column(label) == IF label = "Quality of Education Improved" THEN q_edu ELSE q_img
        IN  /\ Len(rows) = 2 * Cardinality(groups)
            /\ \A i \in DOMAIN rows :
                  /\ rows[i][1] \in groups
                  /\ rows[i][2] \in {"Quality of Education Improved",
                                     "University Image Improved"}
                  /\ IsNum(rows[i][3])
                  /\ 0 <= rows[i][3][3]
                  /\ rows[i][3][3] <= rows[i][3][4]
                  /\ rows[i][3][3] * Size(rows[i][1])
                        = Yes(rows[i][1], Column(rows[i][2])) * rows[i][3][4]
            /\ \A g \in groups :
                  \A label \in {"Quality of Education Improved", "University Image Improved"} :
                      \E i \in DOMAIN rows : rows[i][1] = g /\ rows[i][2] = label

\* A group with a missing answer and a proportion strictly between 0 and 1 for
\* one question, and a different proportion for the other
C6_Witness ==
    /\ InSurvey
    /\ Rendered(Chart("improve"))
    /\ \E i \in DOMAIN Input(q_edu) : IsNa(Input(q_edu)[i])
    /\ \E i, j \in DOMAIN out.improve :
          /\ out.improve[i][1] = out.improve[j][1]
          /\ out.improve[i][3] = Rat(1, 2)
          /\ out.improve[j][3] # Rat(1, 2)

\* C7 as stated: a respondent with any of Q1-Q4 or Q5 missing contributes no
\* value, so each metric has one score per respondent with all five answers.
C7_IncompleteRowsDropped ==
    (InSurvey /\ Rendered(Chart("expect"))) =>
        LET complete ==
                {r \in DOMAIN Input(satisfaction_col) :
                    /\ ~IsNa(Input(satisfaction_col)[r])
                    /\ \A k \in DOMAIN expectation_cols :
                          ~IsNa(Input(expectation_cols[k])[r])}
            Scores(metric) == {i \in DOMAIN out.expect : out.expect[i][1] = metric}
        IN  /\ Cardinality(Scores("Average Initial Expectation")) = Cardinality(complete)
            /\ Cardinality(Scores("Expectation Met Score")) = Cardinality(complete)

\* C8 as stated: after a plot_* call the table passed to it has the columns
\* and cells it had before the call.
C8_ChartsLeaveTableAlone ==
    (InSurvey /\ \E i \in DOMAIN page : page[i][1] = "plotly_chart") =>
        /\ df.cols = passed.cols
        /\ \A c \in Range(passed.cols) : df.cells[c] = passed.cells[c]

C10_FailureIsCached ==
    \A u \in Urls :
        (firstRet[u].set /\ firstRet[u].value.none) =>
            /\ cache[u].has
            /\ cache[u].value.none
            /\ fetches[u] = 1
            /\ LoadReturned => arts_df.none /\ Rendered(ErrorEl)
            /\ NoDataRendered

\* A second run that got the cached failure
C10_Witness ==
    /\ runs = 2
    /\ LoadFailed
    /\ fetches[URL] = 1
    /\ pc = "done"

====
